---- MODULE Spec2Model ----
(***************************************************************************)
(* One call of lanczos() (hessian_eigenthings/lanczos.py): the size and    *)
(* basis-vector-count derivation, the advisory, the construction of the    *)
(* scipy LinearOperator around _scipy_apply, the initial-vector handling,  *)
(* the single eigsh() invocation with its matrix-vector callbacks, and the *)
(* transposition of the eigenvector matrix.                                *)
(*                                                                         *)
(* Python's None is modelled as the empty sequence <<>> and a present      *)
(* value v as <<v>>.  A vector is a record                                 *)
(*   [form: array|tensor, prec: full|half, dev: host|gpu, len, val]        *)
(* where val stands for its contents.                                      *)
(*                                                                         *)
(* The arguments `which` and `tol` are handed to eigsh unchanged and       *)
(* influence nothing else in lanczos(); they are not part of the state.    *)
(***************************************************************************)
EXTENDS Integers, Sequences, FiniteSets, TLC

\* ------------------------------------------------------------- bounds
MaxSize == 3
MaxK == 2
MaxSteps == 2
MaxVal == 2

\* supplied basis-vector counts range past the largest operator size
MaxNcv == MaxSize + 1

VARIABLES
    opSize,               \* operator.size as declared by the caller
    num_eigenthings,      \* argument
    max_steps,            \* argument
    nlvArg,               \* argument num_lanczos_vectors as supplied (<<>> = None)
    initVecArg,           \* argument init_vec as supplied (<<>> = None)
    use_gpu, fp16,        \* arguments
    size,                 \* local `size` (<<>> before line 55)
    num_lanczos_vectors,  \* local after line 61-62 (<<>> = None)
    warned,               \* the advisory of lines 63-66 has been emitted
    init_vec,             \* local `init_vec`
    pc,                   \* position in lanczos / _scipy_apply / eigsh
    caller,               \* who issued the running callback: "ctor" or "solver"
    x,                    \* the vector inside the running callback (<<>> outside)
    cbInLen,              \* length of the running callback's input
    applyArg,             \* last vector handed to operator.apply (<<>> = none yet)
    applyKept,            \* the last apply returned a vector of its input's length
    cbOut,                \* last vector a callback returned (<<>> = none yet)
    callbacks,            \* number of _scipy_apply invocations started
    applyCalls,           \* number of operator.apply calls made
    applyActive,          \* number of operator.apply calls in progress
    solverCalls,          \* number of eigsh invocations
    solverArgs,           \* what eigsh was invoked with (<<>> = not invoked)
    solverStart,          \* the vector the solver starts from (<<>> = not invoked)
    iters,                \* solver iterations done
    solverOut,            \* what eigsh returned (<<>> = nothing)
    raised,               \* the exception in flight / raised (<<>> = none)
    failure,              \* the exception the caller of lanczos sees (<<>> = none)
    afterFailure,         \* apply calls + solver invocations made after a raise
    result                \* what lanczos returned (<<>> = nothing)

vars == << opSize, num_eigenthings, max_steps, nlvArg, initVecArg, use_gpu, fp16,
           size, num_lanczos_vectors, warned, init_vec, pc, caller, x, cbInLen,
           applyArg, applyKept, cbOut, callbacks, applyCalls, applyActive,
           solverCalls, solverArgs, solverStart, iters, solverOut, raised,
           failure, afterFailure, result >>

args == << opSize, num_eigenthings, max_steps, nlvArg, initVecArg, use_gpu, fp16 >>
locals == << size, num_lanczos_vectors, warned, init_vec >>
cbVars == << caller, x, cbInLen, applyArg, applyKept, cbOut, callbacks,
             applyCalls, applyActive >>
solverVars == << solverCalls, solverArgs, solverStart, iters, solverOut >>
endVars == << raised, failure, afterFailure, result >>

\* ------------------------------------------------------------- values
None == << >>
Some(v) == << v >>
Get(o) == o[1]

Min(a, b) == IF a <= b THEN a ELSE b

Vec(form, prec, dev, len, val) ==
    [form |-> form, prec |-> prec, dev |-> dev, len |-> len, val |-> val]

\* operator.size: a Python int, a shape whose first element is an int, or
\* something that is neither an int nor subscriptable (a float, None)
SizeDecls ==
    {[kind |-> "int", n |-> v] : v \in {-1} \cup (0..MaxSize)}
      \cup {[kind |-> "shape", n |-> v] : v \in 0..MaxSize}
      \cup {[kind |-> "other", n |-> 0]}

\* init_vec as the caller may supply it: a host array or a torch tensor
\* on either device (contents 1..MaxVal)
InitVecs ==
    {Vec("array", "full", "host", MaxSize, v) : v \in 1..MaxVal}
      \cup {Vec("tensor", "full", d, MaxSize, MaxVal) : d \in {"host", "gpu"}}

\* eigenvalues the solver may report (the spec's example spectrum)
EigVals == {-5, 10}

\* ------------------------------------------------------------- helpers
\* lines 61-62: the basis-vector count, derived when not supplied
BasisCountNoMin(nlv, k, n) == IF nlv = None THEN 2 * k ELSE Get(nlv)
BasisCount(nlv, k, n) == IF nlv = None THEN Min(2 * k, n - 1) ELSE Get(nlv)

\* line 63: the condition under which the advisory is emitted
NeedsAdvisoryLe(ncv, k) == ncv <= 2 * k
NeedsAdvisory(ncv, k) == ncv < 2 * k

\* utils.maybe_fp16: cast to reduced precision when fp16 is set
MaybeFp16(v, half) == IF half THEN [v EXCEPT !.prec = "half"] ELSE v

\* line 69: torch.from_numpy
FromNumpy(v) == [v EXCEPT !.form = "tensor"]

\* lines 71-72: relocate to the accelerator when use_gpu
ToDeviceAlways(v, gpu) == [v EXCEPT !.dev = "gpu"]
ToDevice(v, gpu) == IF gpu THEN [v EXCEPT !.dev = "gpu"] ELSE v

\* line 75 (and line 82): .cpu().numpy()
ToHostArray(v) == [v EXCEPT !.dev = "host", !.form = "array"]

\* what operator.apply may return for a tensor t: a tensor of any placement
\* and precision, of the input's length or (a defective operator) longer
ApplyResults(t) ==
    {Vec("tensor", p, d, l, 0) :
        p \in {"full", "half"}, d \in {"host", "gpu"}, l \in {t.len, t.len + 1}}

\* line 94: eigenvecs.T of a matrix given as a sequence of rows
TransposeOmitted(M) == M
Transpose(M) ==
    IF Len(M) = 0 THEN << >>
    ELSE [i \in 1..Len(M[1]) |-> [j \in 1..Len(M) |-> M[j][i]]]

\* lines 85-93: the keyword arguments of the eigsh call; v0 is not among them
EigshArgs(n, k, maxiter, ncv) ==
    [shape |-> << n, n >>, k |-> k, maxiter |-> maxiter, ncv |-> ncv, v0 |-> None]

\* eigsh on a LinearOperator: k must satisfy 0 < k < n and ncv must satisfy
\* k < ncv <= n; anything else raises before the first iteration
SolverAccepts(a) ==
    /\ 0 < a.k
    /\ a.k < a.shape[1]
    /\ a.k < a.ncv
    /\ a.ncv <= a.shape[1]

\* the vector eigsh starts from: v0 when given, else one it draws itself
\* (contents 0: the solver's own draw, unrelated to any vector of the caller)
SolverStarts(a) ==
    IF a.v0 = None
    THEN {Vec("array", "full", "host", a.shape[1], 0)}
    ELSE {Get(a.v0)}

\* an n-by-k matrix (sequence of n rows) with a 1 at (a, b), 0 elsewhere
Unit(n, k, a, b) ==
    [j \in 1..n |-> [i \in 1..k |-> IF j = a /\ i = b THEN 1 ELSE 0]]

\* the n-by-k matrix whose entries are all different
Coded(n, k) == [j \in 1..n |-> [i \in 1..k |-> (j - 1) * k + i]]

\* what eigsh may return: k eigenvalues and an n-by-k matrix, one
\* eigenvector per column
SolverOutputs(n, k) ==
    {[vals |-> w, vecs |-> V] :
        w \in [1..k -> EigVals],
        V \in {Coded(n, k)} \cup {Unit(n, k, a, b) : a \in 1..n, b \in 1..k}}

\* lines 85-94 have no try/except: an exception leaves lanczos
AfterRaiseRetry == "eigsh"
AfterRaise == "failed"

\* ------------------------------------------------------------- Init
Init ==
    /\ opSize \in SizeDecls
    /\ num_eigenthings \in 1..MaxK
    /\ max_steps \in 1..MaxSteps
    /\ nlvArg \in {None} \cup {Some(c) : c \in 0..MaxNcv}
    /\ initVecArg \in {None} \cup {Some(v) : v \in InitVecs}
    /\ use_gpu \in BOOLEAN
    /\ fp16 \in BOOLEAN
    /\ size = None
    /\ num_lanczos_vectors = nlvArg
    /\ warned = FALSE
    /\ init_vec = initVecArg
    /\ pc = "size"
    /\ caller = "none"
    /\ x = None
    /\ cbInLen = 0
    /\ applyArg = None
    /\ applyKept = FALSE
    /\ cbOut = None
    /\ callbacks = 0
    /\ applyCalls = 0
    /\ applyActive = 0
    /\ solverCalls = 0
    /\ solverArgs = None
    /\ solverStart = None
    /\ iters = 0
    /\ solverOut = None
    /\ raised = None
    /\ failure = None
    /\ afterFailure = 0
    /\ result = None

\* raising exception e at the current position
Raise(e) ==
    /\ raised' = Some(e)
    /\ pc' = "raise"

\* entering _scipy_apply with a host array of length n, on behalf of who
EnterCallback(who, n) ==
    /\ caller' = who
    /\ x' = Some(Vec("array", "full", "host", n, 0))
    /\ cbInLen' = n
    /\ callbacks' = callbacks + 1
    /\ pc' = "cb_from_numpy"

\* ------------------------------------------------------------- lanczos
\* lines 55-59: size from operator.size
DetermineSize ==
    /\ pc = "size"
    /\ IF opSize.kind \in {"int", "shape"}
       THEN /\ size' = Some(opSize.n)
            /\ pc' = "ncv"
            /\ UNCHANGED raised
       ELSE /\ Raise("TypeError")
            /\ UNCHANGED size
    /\ UNCHANGED << args, num_lanczos_vectors, warned, init_vec, cbVars,
                    solverVars, failure, afterFailure, result >>

\* lines 61-62
DeriveCount ==
    /\ pc = "ncv"
    /\ num_lanczos_vectors' =
           Some(BasisCount(num_lanczos_vectors, num_eigenthings, Get(size)))
    /\ pc' = "warn"
    /\ UNCHANGED << args, size, warned, init_vec, cbVars, solverVars, endVars >>

\* lines 63-66: warn() returns; the call goes on
Advisory ==
    /\ pc = "warn"
    /\ warned' = NeedsAdvisory(Get(num_lanczos_vectors), num_eigenthings)
    /\ pc' = "ctor"
    /\ UNCHANGED << args, size, num_lanczos_vectors, init_vec, cbVars,
                    solverVars, endVars >>

\* line 78: ScipyLinearOperator(shape, _scipy_apply) just stores its arguments
Construct ==
    /\ pc = "ctor"
    /\ pc' = "init_vec"
    /\ UNCHANGED << args, locals, cbVars, solverVars, endVars >>

\* line 78: with no dtype given, scipy may infer one by applying the
\* callback to a zero vector of length size
ConstructProbe ==
    /\ pc = "ctor"
    /\ Get(size) >= 0
    /\ EnterCallback("ctor", Get(size))
    /\ UNCHANGED << args, locals, applyArg, applyKept, cbOut, applyCalls,
                    applyActive, solverVars, endVars >>

\* line 78: a negative dimension may be refused by the constructor
ConstructRejects ==
    /\ pc = "ctor"
    /\ Get(size) < 0
    /\ Raise("ValueError")
    /\ UNCHANGED << args, locals, cbVars, solverVars, failure, afterFailure,
                    result >>

\* lines 79-82
PrepareInitVec ==
    /\ pc = "init_vec"
    /\ IF init_vec = None
       THEN IF Get(size) < 0
            THEN /\ Raise("ValueError")
                 /\ UNCHANGED init_vec
            ELSE /\ \E v \in 1..MaxVal :
                        init_vec' = Some(Vec("array", "full", "host", Get(size), v))
                 /\ pc' = "fp16_init"
                 /\ UNCHANGED raised
       ELSE /\ init_vec' = IF Get(init_vec).form = "tensor"
                           THEN Some(ToHostArray(Get(init_vec)))
                           ELSE init_vec
            /\ pc' = "fp16_init"
            /\ UNCHANGED raised
    /\ UNCHANGED << args, size, num_lanczos_vectors, warned, cbVars, solverVars,
                    failure, afterFailure, result >>

\* line 84
Fp16InitVec ==
    /\ pc = "fp16_init"
    /\ init_vec' = Some(MaybeFp16(Get(init_vec), fp16))
    /\ pc' = "eigsh"
    /\ UNCHANGED << args, size, num_lanczos_vectors, warned, cbVars, solverVars,
                    endVars >>

\* lines 85-93: the eigsh call, up to its parameter check
InvokeSolver ==
    /\ pc = "eigsh"
    /\ LET a == EigshArgs(Get(size), num_eigenthings, max_steps,
                          Get(num_lanczos_vectors))
       IN /\ solverCalls' = solverCalls + 1
          /\ solverArgs' = Some(a)
          /\ afterFailure' = IF raised = None THEN afterFailure
                             ELSE afterFailure + 1
          /\ iters' = 0
          /\ IF SolverAccepts(a)
             THEN /\ \E s \in SolverStarts(a) : solverStart' = Some(s)
                  /\ pc' = "solver"
                  /\ UNCHANGED raised
             ELSE /\ Raise("ValueError")
                  /\ UNCHANGED solverStart
    /\ UNCHANGED << args, locals, cbVars, solverOut, failure, result >>

\* line 94
Return ==
    /\ pc = "return"
    /\ result' = Some([eigenvals |-> Get(solverOut).vals,
                       eigenvecs |-> Transpose(Get(solverOut).vecs)])
    /\ pc' = "done"
    /\ UNCHANGED << args, locals, cbVars, solverVars, raised, failure,
                    afterFailure >>

\* an exception in flight leaves lanczos and reaches its caller
Propagate ==
    /\ pc = "raise"
    /\ failure' = raised
    /\ pc' = AfterRaise
    /\ UNCHANGED << args, locals, cbVars, solverVars, raised, afterFailure,
                    result >>

\* ------------------------------------------------------------- _scipy_apply
\* line 69
CbFromNumpy ==
    /\ pc = "cb_from_numpy"
    /\ x' = Some(FromNumpy(Get(x)))
    /\ pc' = "cb_fp16_in"
    /\ UNCHANGED << args, locals, caller, cbInLen, applyArg, applyKept, cbOut,
                    callbacks, applyCalls, applyActive, solverVars, endVars >>

\* line 70
CbFp16In ==
    /\ pc = "cb_fp16_in"
    /\ x' = Some(MaybeFp16(Get(x), fp16))
    /\ pc' = "cb_cuda"
    /\ UNCHANGED << args, locals, caller, cbInLen, applyArg, applyKept, cbOut,
                    callbacks, applyCalls, applyActive, solverVars, endVars >>

\* lines 71-72
CbCuda ==
    /\ pc = "cb_cuda"
    /\ x' = Some(ToDevice(Get(x), use_gpu))
    /\ pc' = "cb_apply"
    /\ UNCHANGED << args, locals, caller, cbInLen, applyArg, applyKept, cbOut,
                    callbacks, applyCalls, applyActive, solverVars, endVars >>

\* line 73: operator.apply(x) is entered
CbApply ==
    /\ pc = "cb_apply"
    /\ applyArg' = x
    /\ applyCalls' = applyCalls + 1
    /\ applyActive' = applyActive + 1
    /\ afterFailure' = IF raised = None THEN afterFailure ELSE afterFailure + 1
    /\ pc' = "in_apply"
    /\ UNCHANGED << args, locals, caller, x, cbInLen, applyKept, cbOut,
                    callbacks, solverVars, raised, failure, result >>

\* line 73: operator.apply returns a tensor
ApplyReturns ==
    /\ pc = "in_apply"
    /\ \E out \in ApplyResults(Get(applyArg)) :
          /\ x' = Some(out)
          /\ applyKept' = (out.len = Get(applyArg).len)
    /\ applyActive' = applyActive - 1
    /\ pc' = "cb_fp16_out"
    /\ UNCHANGED << args, locals, caller, cbInLen, applyArg, cbOut, callbacks,
                    applyCalls, solverVars, endVars >>

\* line 73: operator.apply raises
ApplyRaises ==
    /\ pc = "in_apply"
    /\ applyActive' = applyActive - 1
    /\ x' = None
    /\ Raise("OperatorApplicationFailure")
    /\ UNCHANGED << args, locals, caller, cbInLen, applyArg, applyKept, cbOut,
                    callbacks, applyCalls, solverVars, failure, afterFailure,
                    result >>

\* line 74
CbFp16Out ==
    /\ pc = "cb_fp16_out"
    /\ x' = Some(MaybeFp16(Get(x), fp16))
    /\ pc' = "cb_to_host"
    /\ UNCHANGED << args, locals, caller, cbInLen, applyArg, applyKept, cbOut,
                    callbacks, applyCalls, applyActive, solverVars, endVars >>

\* line 75
CbToHost ==
    /\ pc = "cb_to_host"
    /\ x' = Some(ToHostArray(Get(x)))
    /\ pc' = "cb_return"
    /\ UNCHANGED << args, locals, caller, cbInLen, applyArg, applyKept, cbOut,
                    callbacks, applyCalls, applyActive, solverVars, endVars >>

\* line 76: the array goes back to whoever issued the callback
CbReturn ==
    /\ pc = "cb_return"
    /\ cbOut' = x
    /\ x' = None
    /\ pc' = IF caller = "ctor" THEN "init_vec" ELSE "solver_recv"
    /\ UNCHANGED << args, locals, caller, cbInLen, applyArg, applyKept,
                    callbacks, applyCalls, applyActive, solverVars, endVars >>

\* ------------------------------------------------------------- eigsh
\* the solver asks for one matrix-vector product and waits for it
SolverCallback ==
    /\ pc = "solver"
    /\ iters < Get(solverArgs).maxiter
    /\ iters' = iters + 1
    /\ EnterCallback("solver", Get(solverArgs).shape[1])
    /\ UNCHANGED << args, locals, applyArg, applyKept, cbOut, applyCalls,
                    applyActive, solverCalls, solverArgs, solverStart,
                    solverOut, endVars >>

\* the product comes back; scipy refuses one of the wrong length
SolverReceives ==
    /\ pc = "solver_recv"
    /\ IF Get(cbOut).len = Get(solverArgs).shape[1]
       THEN /\ pc' = "solver"
            /\ UNCHANGED raised
       ELSE Raise("ValueError")
    /\ UNCHANGED << args, locals, cbVars, solverVars, failure, afterFailure,
                    result >>

\* the solver converges and returns its eigenvalues and eigenvectors
SolverConverges ==
    /\ pc = "solver"
    /\ iters >= 1
    /\ \E o \in SolverOutputs(Get(solverArgs).shape[1], Get(solverArgs).k) :
          solverOut' = Some(o)
    /\ pc' = "return"
    /\ UNCHANGED << args, locals, cbVars, solverCalls, solverArgs, solverStart,
                    iters, endVars >>

\* the iteration cap is reached without convergence
SolverNoConvergence ==
    /\ pc = "solver"
    /\ iters = Get(solverArgs).maxiter
    /\ Raise("ArpackNoConvergence")
    /\ UNCHANGED << args, locals, cbVars, solverVars, failure, afterFailure,
                    result >>

\* ------------------------------------------------------------- specification
Next ==
    \/ DetermineSize
    \/ DeriveCount
    \/ Advisory
    \/ Construct
    \/ ConstructProbe
    \/ ConstructRejects
    \/ PrepareInitVec
    \/ Fp16InitVec
    \/ InvokeSolver
    \/ Return
    \/ Propagate
    \/ CbFromNumpy
    \/ CbFp16In
    \/ CbCuda
    \/ CbApply
    \/ ApplyReturns
    \/ ApplyRaises
    \/ CbFp16Out
    \/ CbToHost
    \/ CbReturn
    \/ SolverCallback
    \/ SolverReceives
    \/ SolverConverges
    \/ SolverNoConvergence

Spec == Init /\ [][Next]_vars

\* ------------------------------------------------------------- properties
\* the solver has been invoked
Invoked == solverArgs # None

\* the declared size is an integer (directly or as first element of a shape)
SizeIsInt == opSize.kind \in {"int", "shape"}

\* the declared size is a usable positive integer
ValidSize == SizeIsInt /\ opSize.n >= 1

\* a request the solver can serve: a valid size n and 1 <= k < n
ValidCall == ValidSize /\ num_eigenthings < opSize.n

\* the basis-vector count has been settled and the advisory check has run
Checked == size # None /\ pc \notin {"size", "ncv", "warn"}

\* C1: for a valid operator of size n and 1 <= k < n with the count derived,
\* the solver accepts what it is handed, no parameter error ends the call,
\* and a returned result has k eigenvalues and k eigenvectors of length n.
C1_DerivedParamsAccepted ==
    (ValidCall /\ nlvArg = None)
    => /\ Invoked => SolverAccepts(Get(solverArgs))
       /\ pc = "done" =>
             /\ Len(Get(result).eigenvals) = num_eigenthings
             /\ Len(Get(result).eigenvecs) = num_eigenthings
             /\ \A i \in 1..num_eigenthings :
                   Len(Get(result).eigenvecs[i]) = opSize.n

\* C2: lanczos returns the solver's eigenvalues unchanged and the solver's
\* n-by-k eigenvector matrix V as the k-by-n matrix R with R[i][j] = V[j][i].
C2_ResultIsTranspose ==
    pc = "done" =>
        LET V == Get(solverOut).vecs
            R == Get(result).eigenvecs
            n == Get(size)
            k == num_eigenthings
        IN /\ Get(result).eigenvals = Get(solverOut).vals
           /\ Len(V) = n
           /\ Len(R) = k
           /\ \A i \in 1..k :
                 /\ Len(R[i]) = n
                 /\ \A j \in 1..n : R[i][j] = V[j][i]

\* C2 witness: a 3-by-2 solver matrix with its 1 off the diagonal, and two
\* different eigenvalues, has been returned.
C2_Witness ==
    /\ pc = "done"
    /\ Get(size) = 3
    /\ num_eigenthings = 2
    /\ Get(solverOut).vecs[3][2] = 1
    /\ Get(solverOut).vals[1] # Get(solverOut).vals[2]
    /\ Get(result).eigenvecs[2][3] = 1

C4_AdvisoryStrictNonFatal ==
    /\ ~Checked => ~warned
    /\ Checked => (warned <=> Get(num_lanczos_vectors) < 2 * num_eigenthings)
    /\ pc = "ctor" => raised = None
    /\ Invoked =>
          /\ Get(solverArgs).ncv = Get(num_lanczos_vectors)
          /\ Get(solverArgs).k = num_eigenthings
          /\ warned <=> Get(solverArgs).ncv < 2 * num_eigenthings
    /\ (pc = "failed" /\ warned /\ ~Invoked) =>
          \/ Get(size) < 0 /\ failure = Some("ValueError")
          \/ failure = Some("OperatorApplicationFailure")
    /\ (pc = "done" /\ warned) =>
          /\ Invoked
          /\ Len(Get(result).eigenvals) = num_eigenthings
          /\ Len(Get(result).eigenvecs) = num_eigenthings

\* C4 witness: k = 2 with 3 basis vectors supplied warned, and the call
\* returned its 2 eigenpairs.
C4_Witness ==
    /\ pc = "done"
    /\ warned
    /\ num_eigenthings = 2
    /\ nlvArg = Some(3)
    /\ Get(solverArgs).ncv = 3
    /\ Len(Get(result).eigenvals) = 2

\* the declared size is not a usable positive integer
InvalidSize == ~ValidSize

\* C5: with a declared size that is not a usable positive integer the call
\* never invokes the solver, never calls operator.apply and never returns.
C5_InvalidSizeFailsFast ==
    InvalidSize =>
        /\ solverCalls = 0
        /\ applyCalls = 0
        /\ pc # "done"

\* C6: the vector the solver starts from is the processed init_vec (stated
\* for a valid size n and 1 <= k < n).
C6_SolverStartsFromInitVec ==
    (ValidCall /\ solverStart # None) =>
        /\ Get(solverArgs).v0 = init_vec
        /\ solverStart = init_vec

\* C7: a count not exceeding 2k at the solver's invocation has been warned
\* about (stated for a valid size n and 1 <= k < n).
C7_NotExceedingIsWarned ==
    (ValidCall /\ Invoked /\ Get(solverArgs).ncv <= 2 * num_eigenthings)
    => warned

\* C8: the count handed to the solver is at most size - 1, supplied or derived
\* (stated for a valid size n and 1 <= k < n).
C8_CountBelowSize ==
    (ValidCall /\ Invoked) => Get(solverArgs).ncv <= Get(size) - 1

\* positions of _scipy_apply before operator.apply is entered
BeforeApply == {"cb_from_numpy", "cb_fp16_in", "cb_cuda", "cb_apply"}

\* C9: every callback makes exactly one operator.apply call, never two at a
\* time, on a tensor that is on the accelerator iff use_gpu and in reduced
\* precision iff fp16, and returns a host array, of the input's length when
\* apply kept the length.
C9_CallbackSequence ==
    /\ applyActive \in {0, 1}
    /\ applyActive = 1 <=> pc = "in_apply"
    /\ applyCalls = IF pc \in BeforeApply THEN callbacks - 1 ELSE callbacks
    /\ applyArg # None =>
          /\ Get(applyArg).form = "tensor"
          /\ Get(applyArg).dev = "gpu" <=> use_gpu
          /\ Get(applyArg).prec = "half" <=> fp16
    /\ pc = "in_apply" => Get(applyArg).len = cbInLen
    /\ pc = "cb_return" =>
          /\ Get(x).form = "array"
          /\ Get(x).dev = "host"
          /\ applyKept => Get(x).len = cbInLen
    /\ cbOut # None =>
          /\ Get(cbOut).form = "array"
          /\ Get(cbOut).dev = "host"

\* C9 witness: the second callback of a run on the host in full precision is
\* about to return the array of a length-preserving apply that answered with
\* an accelerator tensor.
C9_Witness ==
    /\ pc = "cb_to_host"
    /\ callbacks = 2
    /\ applyCalls = 2
    /\ ~use_gpu
    /\ ~fp16
    /\ applyKept
    /\ Get(x).dev = "gpu"

\* C10: the solver is invoked at most once; an exception, once raised, is
\* the failure the caller sees, nothing is returned, and no operator.apply
\* call and no solver invocation follows it.
C10_NoRetry ==
    /\ solverCalls <= 1
    /\ afterFailure = 0
    /\ raised # None => /\ pc \in {"raise", "failed"}
                        /\ result = None
                        /\ applyActive = 0
    /\ failure # None => /\ failure = raised
                         /\ pc = "failed"
    /\ pc = "failed" => failure # None
    /\ pc = "done" => raised = None /\ result # None

\* C10 witness: operator.apply raised in a callback of the solver and the
\* caller saw that failure after one solver invocation.
C10_Witness ==
    /\ pc = "failed"
    /\ failure = Some("OperatorApplicationFailure")
    /\ caller = "solver"
    /\ solverCalls = 1
    /\ applyCalls >= 1

====
